---- MODULE Spec2Model ----
(***************************************************************************)
(* State-machine model of src/src/runAll.ts: the suite runner (runAll),    *)
(* the two-pass attempt scheduler (runTestFiles), the per-file pipeline    *)
(* (buildAndTest, runServerAndTests, runTests) and the timeout-bounded     *)
(* case executor (runTest).  Every await of the source is a step           *)
(* boundary; the code between two awaits is one atomic action.             *)
(***************************************************************************)
EXTENDS Integers, Sequences, FiniteSets, TLC

\* ------------------------------------------------------------------ bounds
NumFiles == 2       \* number of discovered test files
MaxTests == 2       \* most test() cases one file registers
MaxOrphans == 1     \* abandoned runTest invocations that are still tracked

VARIABLES
    isCIEnv,            \* utils.isCI()
    isParallelCIEnv,    \* parallel-ci.isParallelCI()
    isWindowsEnv,       \* utils.isWindows()
    pc,                 \* position of the single async control flow
    pass,               \* 1: first for-loop of runTestFiles, 2: second
    idx,                \* index of the loop into its list
    failedFirstAttempt,
    failedSecondAttempt,
    failedTestFiles,    \* value returned by runTestFiles to runAll
    currentTest,        \* getCurrentTest(): the TestInfo singleton
    logEntries,         \* Logs: the shared buffer
    hasFailLog,         \* logTestStatus.hasFail()
    isFinalAttempt,     \* local of runServerAndTests
    success,            \* local of runServerAndTests
    caseIdx,            \* position of the for-loop of runTests
    cur,                \* runTest invocation the case loop is awaiting
    orphans,            \* runTest invocations left behind with a live timer or body
    runAllResult,       \* how runAll / the process ended
    exitStatus,         \* argument of process.exit, -1 while not called
    errorFiles,         \* files enumerated by the aggregate error
    execCount,          \* history: buildAndTest calls per file and pass
    out1, out2,         \* history: value buildAndTest returned per file, per pass
    finalFailed,        \* history: <<file, pass>> of the failed attempts with isFinalAttempt
    flakyFailed1,       \* history: files declared flaky that failed their pass-1 attempt
    lateEvent,          \* history: what the last step, if a late event, did to its call
    logged,             \* history: reason the last step of the main flow gave logFailure
    caseCheck,          \* history: what the last step, if a case check, had before it
    att                 \* history: trace of the current / most recent attempt

vars == <<isCIEnv, isParallelCIEnv, isWindowsEnv, pc, pass, idx, failedFirstAttempt,
          failedSecondAttempt, failedTestFiles, currentTest, logEntries, hasFailLog,
          isFinalAttempt, success, caseIdx, cur, orphans, runAllResult, exitStatus,
          errorFiles, execCount, out1, out2, finalFailed, flakyFailed1, lateEvent, logged,
          caseCheck, att>>

envVars == <<isCIEnv, isParallelCIEnv, isWindowsEnv>>
schedVars == <<pass, idx, failedFirstAttempt, failedSecondAttempt, failedTestFiles>>
endVars == <<runAllResult, exitStatus, errorFiles>>
histVars == <<execCount, out1, out2, finalFailed, flakyFailed1>>
localVars == <<isFinalAttempt, success, caseIdx>>

Files == 1..NumFiles

\* findTestFiles(filter): the discovered files, in discovery order
testFiles == [i \in 1..NumFiles |-> i]

\* ------------------------------------------------------- test declarations
\* What a test file registers while it is imported: skip(), run(), test().
\* tests = 0 stands for testInfo.tests === undefined (test() never called).
Declarations ==
    {[skipped |-> TRUE, runInfo |-> r, tests |-> n, isFlaky |-> FALSE,
      doNotFailOnWarning |-> FALSE] : r \in BOOLEAN, n \in {0, 1}}
    \cup
    {[skipped |-> FALSE, runInfo |-> TRUE, tests |-> n, isFlaky |-> fl,
      doNotFailOnWarning |-> d] : n \in 0..MaxTests, fl \in BOOLEAN, d \in BOOLEAN}
    \cup
    {[skipped |-> FALSE, runInfo |-> FALSE, tests |-> 0, isFlaky |-> FALSE,
      doNotFailOnWarning |-> FALSE]}

NoDecl == [skipped |-> FALSE, runInfo |-> FALSE, tests |-> 0, isFlaky |-> FALSE,
           doNotFailOnWarning |-> FALSE]

\* setCurrentTest(null)
NoTest == [testFile |-> 0, decl |-> NoDecl, page |-> FALSE]

\* setCurrentTest(testFile) followed by the import that fills the TestInfo
LoadedTest(f, d) == [testFile |-> f, decl |-> d, page |-> FALSE]

\* ------------------------------------------------------------------- Logs
Severities == {"info", "warning", "error"}

\* What one hook or body may emit while it runs: nothing, or one entry.
LogInputs == {"none", "warning", "error"}

\* What an abandoned body may still emit
LateLogInputs == {"error"}

LogEntry(src, sev) == [logSource |-> src, severity |-> sev]

\* Logs.add(entry)
LogsAdd(log, e) == Append(log, e)

Emit(log, src, in) ==
    IF in = "none" THEN log ELSE LogsAdd(log, LogEntry(src, in))

\* Logs.hasFailLogs(failOnWarning)
HasFailLogs(log, failOnWarning) ==
    \E k \in 1..Len(log) :
        \/ log[k].severity = "error"
        \/ failOnWarning /\ log[k].severity = "warning"

\* Logs.clearLogs()
ClearLogs(log) == << >>

\* Logs.flushLogs(): prints the buffered entries and drains the buffer
FlushLogs(log) == << >>

\* --------------------------------------------------------------- runTest
NoCall == [promise |-> "none", timeout |-> "none", body |-> "none"]

\* mutant: a later resolve() / reject() overwrites a settled promise
SettleOverwrites(p, v) == v

\* settling a promise that is already settled is a no-op
SettlePromise(p, v) == IF p = "pending" THEN v ELSE p

\* clearTimeout(timeout)
ClearTimeout(t) == IF t = "armed" THEN "cleared" ELSE t

\* new Promise + setTimeout + testFn(): b = "threw" when testFn() throws
\* synchronously (runTest then throws before it reaches its async wrapper)
NewCall(b) == [promise |-> "pending", timeout |-> "armed", body |-> b]

\* mutant: the timer callback does not reject the promise
TimerFiresSilently(r) == [r EXCEPT !.timeout = "fired"]

\* the timer callback: reject(new Error('[test] Timeout after ...'))
TimerFires(r) ==
    [r EXCEPT !.promise = SettlePromise(@, "rejTimeout"), !.timeout = "fired"]

\* the async wrapper: await ret; resolve() / reject(err); finally clearTimeout
BodySettles(r, v) ==
    [r EXCEPT !.promise = SettlePromise(@, v), !.body = "settled",
              !.timeout = ClearTimeout(@)]

\* what `await runTest(...)` hands to the caller of a call that can resume
CallOutcome(r) ==
    IF r.body = "threw" THEN "propagated"
    ELSE CASE r.promise = "fulfilled" -> "success"
           [] r.promise = "rejTimeout" -> "timeout"
           [] r.promise \in {"rejError", "rejFalsy"} -> "propagated"
           [] OTHER -> "pending"

\* The value runTests keeps of a failed invocation (catch (err_) { err = err_ })
\* is only ever tested for truthiness (!!err, err || hasErrorLog): this is
\* whether it is truthy.  The timeout error is an Error object; a body may
\* reject with any value, an Error ("rejError") or a falsy one such as
\* undefined ("rejFalsy", e.g. Promise.reject()).
ErrTruthy(r) == r.body = "threw" \/ r.promise \in {"rejTimeout", "rejError"}

\* a retired invocation that can still act: live timer or unsettled body
StillLive(r) == r.timeout = "armed" \/ r.body = "running"

NoLateEvent == [before |-> "none", after |-> "none"]

\* a late event: the outcome of the invocation it belongs to, before and after
LateEvent(r, r2) == [before |-> CallOutcome(r), after |-> CallOutcome(r2)]

Retire(r) ==
    IF StillLive(r) /\ Cardinality(orphans) < MaxOrphans THEN orphans \cup {r} ELSE orphans

\* ------------------------------------------------------- runServerAndTests
\* mutant: the negation of isFlaky is lost
IsFinalAttemptFlaky(isSecondAttempt, isFlaky) == isSecondAttempt \/ isFlaky

\* const isFinalAttempt = isSecondAttempt || !testInfo.runInfo.isFlaky
IsFinalAttempt(isSecondAttempt, isFlaky) == isSecondAttempt \/ ~isFlaky

\* mutant: abortMaybe asks isCI() instead of isParallelCI()
AbortMaybeCI(final) == final /\ isCIEnv

\* abortMaybe(): whether process.exit(1) is called
AbortMaybe(final) == final /\ isParallelCIEnv

\* mutant: the assertUsage on testInfo.tests is missing
SkipUsageOkRunOnly(d) == ~d.runInfo

\* assertSkipUsage(testInfo): both assertUsage conditions hold
SkipUsageOk(d) == ~d.runInfo /\ d.tests = 0

\* logFail(reason, isFinalAttempt): a final-attempt failure is what makes
\* hasFail() true
LogFail(h, final) == h \/ final

\* mutant: the negation of isWindows() is lost
PostStopFailsOnWindows(log) == HasFailLogs(log, TRUE) /\ isWindowsEnv

PostStopFailOnWarningOverridden(d) == ~d.doNotFailOnWarning

\* failOnWarning of the post-stop check: const failOnWarning = true
PostStopFailOnWarning(d) == TRUE

\* the post-stop check: Logs.hasFailLogs(true) && !isWindows()
PostStopFails(log) ==
    HasFailLogs(log, PostStopFailOnWarning(currentTest.decl)) /\ ~isWindowsEnv

\* failOnWarning of the case loop: !testInfo.runInfo.doNotFailOnWarning
CaseFailOnWarning(d) == ~d.doNotFailOnWarning

\* mutant: a failed case loop skips the server stop hook
AfterRunTestsEarlyOut(succ) == IF succ THEN "terminateServer" ELSE "closePage"

\* let success = await runTests(...); await testInfo.terminateServer():
\* whatever runTests returned, the stop hook is next
AfterRunTests(succ) == "terminateServer"

\* mutant: the iteration skips a registered case
NextCaseSkipping(i) == i + 2

\* for (const { testDesc, testFn } of testInfo.tests): the next element
NextCase(i) == i + 1

\* const isFailure = err || hasErrorLog
CaseFails(err, hasErrorLog) == err \/ hasErrorLog

\* the reason runTests gives logFailure: 'the test threw an error' when err is
\* set, else 'error(s)/warning(s) occurred while running the test'
CaseFailureReason(err, hasErrorLog) ==
    IF err THEN "threw" ELSE IF hasErrorLog THEN "log" ELSE "none"

\* Logs.clearLogs() after a case passed
LogsAfterCase(log) == ClearLogs(log)

\* mutant: the Logs.clearLogs() before the return is missing
LogsAtReturnKept(log) == log

\* Logs.clearLogs() before runServerAndTests returns
LogsAtReturn(log) == ClearLogs(log)

\* ------------------------------------------------------------ runTestFiles
\* mutant: the early return of non-CI runs is missing
EntersSecondPassAlways == TRUE

\* if (!isCI()) return failedFirstAttempt
EntersSecondPass == isCIEnv

CurrentList == IF pass = 1 THEN testFiles ELSE failedFirstAttempt

CurrentFile == CurrentList[idx]

NoCaseCheck == [made |-> FALSE, err |-> FALSE, error |-> FALSE, warning |-> FALSE]

\* what the check of lines 165-167 has before it: err, and the severities
\* present in the log once afterEach has run
CaseCheck(err, log) ==
    [made |-> TRUE, err |-> err,
     error |-> \E k \in 1..Len(log) : log[k].severity = "error",
     warning |-> \E k \in 1..Len(log) : log[k].severity = "warning"]

NoAttempt ==
    [file |-> 0, pass |-> 0, final |-> FALSE, decl |-> NoDecl,
     started |-> FALSE, startThrew |-> FALSE, casesStarted |-> 0, loop |-> "none", stops |-> 0,
     opened |-> 0, closed |-> 0, stopErr |-> FALSE, checkLog |-> << >>,
     outcome |-> "none"]

Init ==
    /\ isCIEnv \in BOOLEAN
    /\ isParallelCIEnv \in BOOLEAN
    /\ isWindowsEnv \in BOOLEAN
    /\ pc = "loop"
    /\ pass = 1
    /\ idx = 1
    /\ failedFirstAttempt = << >>
    /\ failedSecondAttempt = << >>
    /\ failedTestFiles = << >>
    /\ currentTest = NoTest
    /\ logEntries = << >>
    /\ hasFailLog = FALSE
    /\ isFinalAttempt = FALSE
    /\ success = TRUE
    /\ caseIdx = 0
    /\ cur = NoCall
    /\ orphans = {}
    /\ runAllResult = "running"
    /\ exitStatus = -1
    /\ errorFiles = << >>
    /\ execCount = [f \in Files |-> [p \in 1..2 |-> 0]]
    /\ out1 = [f \in Files |-> "none"]
    /\ out2 = [f \in Files |-> "none"]
    /\ finalFailed = {}
    /\ flakyFailed1 = {}
    /\ lateEvent = NoLateEvent
    /\ logged = "none"
    /\ caseCheck = NoCaseCheck
    /\ att = NoAttempt

\* mutant: buildAndTest returns without resetting the context
ContextKept(ct) == ct

\* setCurrentTest(null) before buildAndTest returns
ContextAfterFile(ct) == NoTest

\* buildAndTest returns `succ` to the loop of runTestFiles, which pushes the
\* file on a failure and goes on: next file, next pass, or return to runAll.
Returns(succ) ==
    LET f == CurrentFile
        ff == IF pass = 1 /\ ~succ THEN Append(failedFirstAttempt, f)
              ELSE failedFirstAttempt
        fs == IF pass = 2 /\ ~succ THEN Append(failedSecondAttempt, f)
              ELSE failedSecondAttempt
    IN  /\ currentTest' = ContextAfterFile(currentTest)
        /\ isFinalAttempt' = FALSE
        /\ success' = TRUE
        /\ caseIdx' = 0
        /\ failedFirstAttempt' = ff
        /\ failedSecondAttempt' = fs
        /\ out1' = IF pass = 1 THEN [out1 EXCEPT ![f] = IF succ THEN "Pass" ELSE "Fail"]
                   ELSE out1
        /\ out2' = IF pass = 2 THEN [out2 EXCEPT ![f] = IF succ THEN "Pass" ELSE "Fail"]
                   ELSE out2
        /\ IF idx < Len(CurrentList)
           THEN /\ idx' = idx + 1
                /\ pass' = pass
                /\ pc' = "loop"
                /\ failedTestFiles' = failedTestFiles
           ELSE IF pass = 1 /\ ~EntersSecondPass
           THEN /\ idx' = idx + 1
                /\ pass' = pass
                /\ pc' = "closeBrowser"
                /\ failedTestFiles' = ff
           ELSE IF pass = 1 /\ ff # << >>
           THEN /\ idx' = 1
                /\ pass' = 2
                /\ pc' = "loop"
                /\ failedTestFiles' = failedTestFiles
           ELSE /\ idx' = IF pass = 1 THEN 1 ELSE idx + 1
                /\ pass' = 2
                /\ pc' = "closeBrowser"
                /\ failedTestFiles' = fs

ThrowsCaughtByFileLoop(what) ==
    /\ pc' = "loop"
    /\ runAllResult' = what
    /\ UNCHANGED <<exitStatus, errorFiles>>

\* an exception that nothing in runAll catches
Throws(what) ==
    /\ pc' = "done"
    /\ runAllResult' = what
    /\ UNCHANGED <<exitStatus, errorFiles>>

\* process.exit(1)
Exits ==
    /\ pc' = "done"
    /\ runAllResult' = "exited"
    /\ exitStatus' = 1
    /\ UNCHANGED errorFiles

\* Pass 2 imports the file afresh (cache-busting query, line 74): the module
\* runs again and registers a run() with the flakiness it registered in
\* pass 1, the one declared property the scheduler's decisions depend on.
Reimported(f, d) ==
    d.runInfo /\ ~d.skipped /\ d.isFlaky = (f \in flakyFailed1)

\* the failing attempt's history
NoteFail(f, final, d) ==
    /\ finalFailed' = IF final THEN finalFailed \cup {<<f, pass>>} ELSE finalFailed
    /\ flakyFailed1' = IF pass = 1 /\ d.isFlaky THEN flakyFailed1 \cup {f}
                                              ELSE flakyFailed1

\* buildAndTest(testFile, browser, isSecondAttempt) up to the first await of
\* runServerAndTests that runs a hook: build, setCurrentTest, import,
\* the skip branch, the assertions, isFinalAttempt, browser.newPage().
BuildAndTest(d) ==
    /\ pc = "loop"
    /\ lateEvent' = NoLateEvent
    /\ logged' = "none"
    /\ caseCheck' = NoCaseCheck
    /\ idx <= Len(CurrentList)
    /\ pass = 2 => Reimported(CurrentFile, d)
    /\ LET f == CurrentFile
           final == IsFinalAttempt(pass = 2, d.isFlaky)
           a == [NoAttempt EXCEPT !.file = f, !.pass = pass, !.decl = d]
       IN  /\ execCount' = [execCount EXCEPT ![f][pass] = @ + 1]
           /\ UNCHANGED <<envVars, logEntries, hasFailLog, cur, orphans,
                          finalFailed, flakyFailed1>>
           /\ IF d.skipped
              THEN IF ~SkipUsageOk(d)
                   THEN /\ Throws("usageError")
                        /\ currentTest' = LoadedTest(f, d)
                        /\ att' = a
                        /\ UNCHANGED <<schedVars, localVars, out1, out2>>
                   ELSE /\ Returns(TRUE)
                        /\ att' = [a EXCEPT !.outcome = "Pass"]
                        /\ UNCHANGED endVars
              ELSE IF ~d.runInfo
              THEN /\ Throws("invariantViolation")
                   /\ currentTest' = LoadedTest(f, d)
                   /\ att' = a
                   /\ UNCHANGED <<schedVars, localVars, out1, out2>>
              ELSE /\ isFinalAttempt' = final
                   /\ currentTest' = [LoadedTest(f, d) EXCEPT !.page = TRUE]
                   /\ att' = [a EXCEPT !.final = final, !.opened = 1]
                   /\ pc' = "startServer"
                   /\ UNCHANGED <<schedVars, endVars, out1, out2, success, caseIdx>>

\* await testInfo.startServer(): the hook may emit a log entry and either
\* returns or throws; on a throw: logFailure, abortMaybe, return false.
\* When it returns, runTests begins (its assertions).
StartServer(in, throws) ==
    /\ pc = "startServer"
    /\ lateEvent' = NoLateEvent
    /\ logged' = IF throws THEN "startServer" ELSE "none"
    /\ caseCheck' = NoCaseCheck
    /\ LET log == Emit(logEntries, "server", in)
           f == CurrentFile
           d == currentTest.decl
       IN  /\ UNCHANGED <<envVars, cur, orphans, execCount>>
           /\ IF throws
              THEN /\ hasFailLog' = LogFail(hasFailLog, isFinalAttempt)
                   /\ logEntries' = FlushLogs(log)
                   /\ NoteFail(f, isFinalAttempt, d)
                   /\ att' = [att EXCEPT !.startThrew = TRUE, !.outcome = "Fail"]
                   /\ IF AbortMaybe(isFinalAttempt)
                      THEN /\ Exits
                           /\ UNCHANGED <<schedVars, localVars, currentTest, out1, out2>>
                      ELSE /\ Returns(FALSE)
                           /\ UNCHANGED endVars
              ELSE /\ logEntries' = log
                   /\ att' = [att EXCEPT !.started = TRUE]
                   /\ UNCHANGED <<hasFailLog, finalFailed, flakyFailed1, schedVars,
                                  currentTest, out1, out2, isFinalAttempt, success>>
                   /\ IF d.tests = 0
                      THEN /\ Throws("invariantViolation")
                           /\ caseIdx' = caseIdx
                      ELSE /\ pc' = "caseLoop"
                           /\ caseIdx' = 1
                           /\ UNCHANGED endVars

\* One iteration of the for-loop of runTests up to `await runTest(...)`:
\* Logs.add of the case marker, logProgress, then runTest creates the promise,
\* arms the timer and calls testFn(), which throws synchronously or returns;
\* `in` is what the body makes the page or the server log while it runs.
RunTestStart(b, in) ==
    /\ pc = "caseLoop"
    /\ lateEvent' = NoLateEvent
    /\ logged' = "none"
    /\ caseCheck' = NoCaseCheck
    /\ caseIdx <= currentTest.decl.tests
    /\ logEntries' = Emit(LogsAdd(logEntries, LogEntry("test()", "info")), "body", in)
    /\ cur' = NewCall(b)
    /\ att' = [att EXCEPT !.casesStarted = @ + 1]
    /\ pc' = "awaitTest"
    /\ UNCHANGED <<envVars, schedVars, currentTest, hasFailLog, isFinalAttempt, success,
                   caseIdx, orphans, endVars, histVars>>

\* the awaitable returned by testFn() settles: it fulfils, or it rejects with
\* an Error or with a falsy value
BodySettle(v) ==
    /\ pc = "awaitTest"
    /\ lateEvent' = NoLateEvent
    /\ logged' = "none"
    /\ caseCheck' = NoCaseCheck
    /\ cur.body = "running" /\ cur.promise = "pending"
    /\ cur' = BodySettles(cur, v)
    /\ UNCHANGED <<envVars, schedVars, pc, currentTest, logEntries, hasFailLog,
                   isFinalAttempt, success, caseIdx, orphans, endVars, histVars, att>>

\* testFunctionTimeout elapses while the case loop is awaiting
TimerFire ==
    /\ pc = "awaitTest"
    /\ lateEvent' = NoLateEvent
    /\ logged' = "none"
    /\ caseCheck' = NoCaseCheck
    /\ cur.body = "running" /\ cur.timeout = "armed"
    /\ cur' = TimerFires(cur)
    /\ UNCHANGED <<envVars, schedVars, pc, currentTest, logEntries, hasFailLog,
                   isFinalAttempt, success, caseIdx, orphans, endVars, histVars, att>>

\* The main control flow is suspended in an await, so that a timer callback or
\* the continuation of an abandoned body can run.  At "caseLoop", and after a
\* synchronous throw of testFn(), it is running synchronously.
CanInterleave ==
    /\ pc \notin {"done", "caseLoop"}
    /\ ~(pc = "awaitTest" /\ cur.body = "threw")

\* an invocation the case loop no longer awaits (testFn() threw synchronously,
\* so nothing cleared its timer): the timer fires and rejects its promise
LateTimerFire(r) ==
    /\ CanInterleave
    /\ r \in orphans
    /\ r.timeout = "armed"
    /\ lateEvent' = LateEvent(r, TimerFires(r))
    /\ orphans' = orphans \ {r}
    /\ UNCHANGED <<envVars, schedVars, pc, currentTest, logEntries, hasFailLog,
                   isFinalAttempt, success, caseIdx, cur, endVars, histVars, att, logged, caseCheck>>

\* an abandoned body goes on: it emits a log entry and settles, which calls
\* resolve() / reject(err) on its own promise and clearTimeout
LateBodySettle(r, in, v) ==
    /\ CanInterleave
    /\ r \in orphans
    /\ r.body = "running"
    /\ logEntries' = Emit(logEntries, "late", in)
    /\ lateEvent' = LateEvent(r, BodySettles(r, v))
    /\ orphans' = orphans \ {r}
    /\ UNCHANGED <<envVars, schedVars, pc, currentTest, hasFailLog,
                   isFinalAttempt, success, caseIdx, cur, endVars, histVars, att, logged, caseCheck>>

AfterEachInputs == {"none", "warning", "error", "throws"}

\* `await runTest(...)` resumes (or runTest threw synchronously); then the rest
\* of the iteration: done(!!err), afterEach(!!err), the failure check,
\* logFailure + return false, or clearLogs and the next iteration / return true;
\* runServerAndTests then goes on to call testInfo.terminateServer().
CaseEpilogue(h) ==
    /\ pc = "awaitTest"
    /\ lateEvent' = NoLateEvent
    /\ CallOutcome(cur) # "pending"
    /\ LET err == ErrTruthy(cur)
           d == currentTest.decl
           log == IF h = "throws" THEN logEntries
                  ELSE Emit(logEntries, "afterEach", h)
           failOnWarning == CaseFailOnWarning(d)
           hasErrorLog == HasFailLogs(log, failOnWarning)
           isFailure == CaseFails(err, hasErrorLog)
       IN  /\ orphans' = Retire(cur)
           /\ cur' = NoCall
           /\ logged' = IF h = "throws" THEN "none" ELSE CaseFailureReason(err, hasErrorLog)
           /\ caseCheck' = IF h = "throws" THEN NoCaseCheck ELSE CaseCheck(err, log)
           /\ UNCHANGED <<envVars, schedVars, currentTest, isFinalAttempt, histVars>>
           /\ IF h = "throws"
              THEN /\ Throws("hookError")
                   /\ UNCHANGED <<logEntries, hasFailLog, success, caseIdx, att>>
              ELSE /\ UNCHANGED endVars
                   /\ IF isFailure
                      THEN /\ hasFailLog' = LogFail(hasFailLog, isFinalAttempt)
                           /\ logEntries' = FlushLogs(log)
                           /\ success' = FALSE
                           /\ caseIdx' = caseIdx
                           /\ att' = [att EXCEPT !.loop = "failed"]
                           /\ pc' = AfterRunTests(FALSE)
                      ELSE /\ hasFailLog' = hasFailLog
                           /\ logEntries' = LogsAfterCase(log)
                           /\ caseIdx' = NextCase(caseIdx)
                           /\ IF NextCase(caseIdx) <= d.tests
                              THEN /\ pc' = "caseLoop"
                                   /\ success' = success
                                   /\ att' = att
                              ELSE /\ pc' = AfterRunTests(TRUE)
                                   /\ success' = TRUE
                                   /\ att' = [att EXCEPT !.loop = "passed"]

\* await testInfo.terminateServer(): the hook may emit a log entry, or throw
TerminateServer(in, throws) ==
    /\ pc = "terminateServer"
    /\ lateEvent' = NoLateEvent
    /\ logged' = "none"
    /\ caseCheck' = NoCaseCheck
    /\ att' = [att EXCEPT !.stops = @ + 1, !.stopErr = (in = "error" /\ ~throws)]
    /\ UNCHANGED <<envVars, schedVars, currentTest, hasFailLog, isFinalAttempt, success,
                   caseIdx, cur, orphans, histVars>>
    /\ IF throws
       THEN /\ Throws("hookError")
            /\ logEntries' = logEntries
       ELSE /\ logEntries' = Emit(logEntries, "server", in)
            /\ pc' = "closePage"
            /\ UNCHANGED endVars

\* await page.close(), then the rest of runServerAndTests: the post-stop
\* check, logPass or abortMaybe, Logs.clearLogs(), return success; then
\* buildAndTest: setCurrentTest(null), return; then the loop of runTestFiles.
ClosePage(in) ==
    /\ pc = "closePage"
    /\ lateEvent' = NoLateEvent
    /\ LET log == Emit(logEntries, "page", in)
           f == CurrentFile
           d == currentTest.decl
           postStop == success /\ PostStopFails(log)
           succ == success /\ ~postStop
       IN  /\ logged' = IF postStop THEN "termination" ELSE "none"
           /\ caseCheck' = NoCaseCheck
           /\ hasFailLog' = IF postStop THEN LogFail(hasFailLog, isFinalAttempt)
                            ELSE hasFailLog
           /\ logEntries' = LogsAtReturn(IF postStop THEN FlushLogs(log) ELSE log)
           /\ att' = [att EXCEPT !.closed = @ + 1,
                                 !.checkLog = IF success THEN log ELSE << >>,
                                 !.outcome = IF succ THEN "Pass" ELSE "Fail"]
           /\ UNCHANGED <<envVars, cur, orphans, execCount>>
           /\ IF succ
              THEN /\ Returns(TRUE)
                   /\ UNCHANGED <<endVars, finalFailed, flakyFailed1>>
              ELSE /\ NoteFail(f, isFinalAttempt, d)
                   /\ IF AbortMaybe(isFinalAttempt)
                      THEN /\ Exits
                           /\ UNCHANGED <<schedVars, localVars, currentTest, out1, out2>>
                      ELSE /\ Returns(FALSE)
                           /\ UNCHANGED endVars

\* runAll after runTestFiles returned: browser.close(), then the final check
CloseBrowser ==
    /\ pc = "closeBrowser"
    /\ lateEvent' = NoLateEvent
    /\ logged' = "none"
    /\ caseCheck' = NoCaseCheck
    /\ LET hasFailedTestFile == Len(failedTestFiles) > 0
       IN  /\ pc' = "done"
           /\ exitStatus' = exitStatus
           /\ IF hasFailedTestFile \/ hasFailLog
              THEN IF ~(hasFailedTestFile /\ hasFailLog)
                   THEN /\ runAllResult' = "assertionError"
                        /\ errorFiles' = errorFiles
                   ELSE /\ runAllResult' = "aggregateError"
                        /\ errorFiles' = failedTestFiles
              ELSE /\ runAllResult' = "success"
                   /\ errorFiles' = errorFiles
    /\ att' = NoAttempt
    /\ UNCHANGED <<envVars, schedVars, currentTest, logEntries, hasFailLog, isFinalAttempt,
                   success, caseIdx, cur, orphans, histVars>>

Next ==
    \/ \E d \in Declarations : BuildAndTest(d)
    \/ \E in \in LogInputs, t \in BOOLEAN : StartServer(in, t)
    \/ \E b \in {"threw", "running"}, in \in LogInputs : RunTestStart(b, in)
    \/ \E v \in {"fulfilled", "rejError", "rejFalsy"} : BodySettle(v)
    \/ TimerFire
    \/ \E r \in orphans : LateTimerFire(r)
    \/ \E r \in orphans, in \in LateLogInputs, v \in {"fulfilled", "rejError"} :
            LateBodySettle(r, in, v)
    \/ \E h \in AfterEachInputs : CaseEpilogue(h)
    \/ \E in \in LogInputs, t \in BOOLEAN : TerminateServer(in, t)
    \/ \E in \in LogInputs : ClosePage(in)
    \/ CloseBrowser

Spec == Init /\ [][Next]_vars

\* The event loop runs a due timer callback and the continuation of a settled
\* await while the main flow is suspended: the timer armed by runTest fires
\* unless clearTimeout came first, and `await runTest(...)` resumes once the
\* promise is settled.
FairSpec ==
    /\ Spec
    /\ WF_vars(TimerFire)
    /\ WF_vars(\E h \in AfterEachInputs : CaseEpilogue(h))

\* ------------------------------------------------------------------ claims
\* runTestFiles returned to runAll (no process.exit, no propagating exception)
Returned ==
    \/ pc = "closeBrowser"
    \/ pc = "done" /\ runAllResult \in {"success", "aggregateError", "assertionError"}

\* the run ended without a propagating exception: runTestFiles returned, or
\* abortMaybe ended the process
EndedWithoutException ==
    pc = "done" /\ runAllResult \in {"success", "aggregateError", "assertionError", "exited"}

InSeq(x, seq) == \E k \in 1..Len(seq) : seq[k] = x

Executions(f) == execCount[f][1] + execCount[f][2]

\* C1 as stated: in every run that ends (even granting that no exception
\* propagates and that a parallel-CI environment is a CI environment), a file
\* is executed in pass 2 iff the environment is CI and its pass-1 execution
\* returned Fail; once in non-CI mode, at most twice in CI mode.
C1_Original ==
    (EndedWithoutException /\ (isParallelCIEnv => isCIEnv)) =>
        \A f \in Files :
            /\ (execCount[f][2] > 0) <=> (isCIEnv /\ out1[f] = "Fail")
            /\ ~isCIEnv => Executions(f) = 1
            /\ Executions(f) <= 2

\* C1 amended: a file is executed in pass 2 only if the environment is CI and
\* its pass-1 execution returned Fail, and at most once per pass; when
\* runTestFiles returns, every file was executed in pass 1, and in pass 2
\* exactly when the environment is CI and its pass-1 execution returned Fail
\* (so once in non-CI mode and at most twice in CI mode).
C1_SecondPassIffCIAndFailed ==
    \A f \in Files :
        /\ execCount[f][1] <= 1 /\ execCount[f][2] <= 1
        /\ execCount[f][2] > 0 => isCIEnv /\ out1[f] = "Fail"
        /\ Returned =>
            /\ execCount[f][1] = 1
            /\ (isCIEnv /\ out1[f] = "Fail") => execCount[f][2] = 1
            /\ ~isCIEnv => Executions(f) = 1

C1_Witness ==
    /\ Returned /\ isCIEnv
    /\ \E f, g \in Files :
        /\ out1[f] = "Fail" /\ execCount[f][2] = 1
        /\ out1[g] = "Pass" /\ execCount[g][2] = 0

\* C2: when the server start hook of a running file throws (and the process is
\* not exited by abortMaybe), the file's outcome is Fail, no case was executed,
\* the server stop hook was invoked and the page was closed exactly once.
C2_StartFailureReleases ==
    (att.startThrew /\ runAllResult # "exited") =>
        /\ att.outcome = "Fail"
        /\ att.casesStarted = 0
        /\ att.stops >= 1
        /\ att.opened = 1 /\ att.closed = 1

\* C3: in parallel-CI mode, once a file failed an attempt whose final-attempt
\* flag is true, the process has exited with status 1 and that attempt is still
\* the last one: no further file was built, loaded or executed.
C3_FinalFailureExits ==
    (isParallelCIEnv /\ finalFailed # {}) =>
        /\ pc = "done" /\ runAllResult = "exited" /\ exitStatus = 1
        /\ att.outcome = "Fail" /\ att.final
        /\ finalFailed = {<<att.file, att.pass>>}
        /\ currentTest.testFile = att.file

C3_Witness ==
    /\ runAllResult = "exited"
    /\ att.pass = 1 /\ ~att.decl.isFlaky
    /\ att.loop = "failed"
    /\ idx < NumFiles

\* C4: a file that failed an attempt whose final-attempt flag is true is never
\* executed again, and is among the files runTestFiles returns.
C4_FinalFailureIsPermanent ==
    \A a \in finalFailed :
        /\ a[2] = 1 => execCount[a[1]][2] = 0
        /\ Returned => InSeq(a[1], failedTestFiles)

\* C5 as stated: a pass-1 failure of a file declared flaky never ends the
\* process, and the file is reported among the still-failing files only after
\* it was re-run once in pass 2.
C5_Original ==
    /\ (att.outcome = "Fail" /\ att.pass = 1 /\ att.decl.isFlaky) => runAllResult # "exited"
    /\ Returned =>
        \A f \in flakyFailed1 : InSeq(f, failedTestFiles) => execCount[f][2] = 1

\* C5 amended: a pass-1 failure of a file declared flaky never ends the
\* process, even in parallel-CI mode; in CI mode the file is reported among the
\* still-failing files only after it was re-run once, in pass 2, and failed
\* again; in non-CI mode there is no pass 2 and it is reported after its
\* single pass-1 attempt.
C5_FlakyToleratedInCI ==
    /\ (att.outcome = "Fail" /\ att.pass = 1 /\ att.decl.isFlaky) => runAllResult # "exited"
    /\ Returned =>
        \A f \in flakyFailed1 :
            IF isCIEnv
            THEN /\ execCount[f][2] = 1
                 /\ InSeq(f, failedTestFiles) <=> out2[f] = "Fail"
            ELSE /\ execCount[f][2] = 0
                 /\ InSeq(f, failedTestFiles)

C5_Witness ==
    /\ isParallelCIEnv /\ isCIEnv
    /\ \E f \in flakyFailed1 : execCount[f][2] = 1 /\ out2[f] = "Pass"
    /\ Returned

\* C6: for a running file on a non-Windows platform whose case loop passed, an
\* error entry added while the server stop hook runs makes the outcome Fail;
\* and a file whose case loop passed fails only by the post-stop check (the
\* platform is not Windows and the log it inspects holds a failure).
C6_PostStopCheck ==
    (att.outcome # "none" /\ att.loop = "passed") =>
        /\ (~isWindowsEnv /\ att.stopErr) => att.outcome = "Fail"
        /\ att.outcome = "Fail" => ~isWindowsEnv /\ HasFailLogs(att.checkLog, TRUE)

C6_Witness ==
    /\ att.loop = "passed" /\ att.stopErr /\ ~isWindowsEnv
    /\ att.casesStarted = MaxTests
    /\ att.outcome = "Fail"

\* the files whose last executed attempt returned Fail, in discovery order
LastFailed(f) == IF out2[f] # "none" THEN out2[f] = "Fail" ELSE out1[f] = "Fail"

RECURSIVE InOrder(_)
InOrder(n) ==
    IF n = 0 THEN << >>
    ELSE IF LastFailed(testFiles[n]) THEN Append(InOrder(n - 1), testFiles[n])
         ELSE InOrder(n - 1)

\* C7: when runAll ends after runTestFiles returned, it fails with the
\* aggregate error iff some file's last executed attempt failed, the error
\* lists exactly those files in discovery order, and otherwise it ends
\* successfully.
C7_AggregateIffStillFailing ==
    (pc = "done" /\ Returned) =>
        IF InOrder(NumFiles) # << >>
        THEN runAllResult = "aggregateError" /\ errorFiles = InOrder(NumFiles)
        ELSE runAllResult = "success"

\* C8: a file with a SkipDeclaration runs no case, opens no page and starts no
\* server; its outcome is Pass, unless it also has a RunDeclaration or
\* registered cases: then a usage error is raised and no outcome is recorded.
C8_SkippedFile ==
    (att.file # 0 /\ att.decl.skipped) =>
        /\ att.casesStarted = 0 /\ att.opened = 0 /\ ~att.started /\ ~att.startThrew
        /\ IF ~att.decl.runInfo /\ att.decl.tests = 0
           THEN /\ att.outcome = "Pass"
                /\ IF att.pass = 1 THEN out1[att.file] = "Pass" ELSE out2[att.file] = "Pass"
           ELSE /\ att.outcome = "none"
                /\ pc = "done" /\ runAllResult = "usageError"
                /\ IF att.pass = 1 THEN out1[att.file] = "none" ELSE out2[att.file] = "none"

C8_Witness ==
    /\ att.file # 0 /\ att.decl.skipped
    /\ att.outcome = "Pass"
    /\ pc = "loop"

\* C9: when a file's execution starts and when a test case starts, the log
\* holds no entry left over from an earlier case or file: every entry of the
\* executions the claim lists (passing, failing by case error, by log
\* detection or at server start, skipped) is gone, and what is there was
\* emitted by this file's server start before its first case. Timeouts are not
\* among the listed executions: what a body emits after a timeout abandoned it
\* (logSource "late") arrives after its case ended and is left aside here.
C9_Checkpoint ==
    \A k \in 1..Len(logEntries) :
        /\ pc = "loop" => logEntries[k].logSource = "late"
        /\ pc = "caseLoop" =>
            \/ logEntries[k].logSource = "late" /\ caseIdx = 1
            \/ logEntries[k].logSource = "server" /\ caseIdx = 1

C9_Witness ==
    /\ pc = "caseLoop" /\ caseIdx = 1 /\ idx = 2
    /\ att.pass = 1
    /\ out1[1] = "Fail"
    /\ logEntries = << >>

\* the outcome of the awaited invocation, once resolved, stays what it is
CurStable ==
    (cur # NoCall /\ cur' # NoCall /\ CallOutcome(cur) # "pending")
        => CallOutcome(cur') = CallOutcome(cur)

\* C10: every runTest invocation is resolved by one of success, timeout error
\* and propagated error, and once it is resolved no later event (the late
\* settlement of its body, its timer) changes the outcome.
C10_OneOutcome ==
    /\ [][CurStable]_vars
    /\ [](lateEvent.before \in {"success", "timeout", "propagated"}
            => lateEvent.after = lateEvent.before)
    /\ [](pc = "awaitTest"
            => CallOutcome(cur) \in {"pending", "success", "timeout", "propagated"})

C10_Witness ==
    /\ lateEvent.before = "timeout"
    /\ lateEvent.after = "timeout"

\* the step is the continuation of a body that a timeout abandoned
LateBodyStep == \E r \in orphans : r \notin orphans' /\ r.body = "running"

\* C11: a case whose body never settles does not block the case loop: the
\* timer rejects the promise, the awaiting loop resumes and judges the case
\* failed by a timeout error; and what the abandoned body emits afterwards is
\* appended to the log, where hasFailLogs sees it.
C11_TimeoutThenLateLog ==
    /\ (pc = "awaitTest") ~> (pc # "awaitTest")
    /\ [](pc = "awaitTest" /\ cur.body = "running" /\ CallOutcome(cur) # "pending"
            => CallOutcome(cur) = "timeout")
    /\ [][(pc = "awaitTest" /\ pc' # "awaitTest" /\ CallOutcome(cur) = "timeout")
            => (att'.loop = "failed" \/ runAllResult' = "hookError")]_vars
    /\ [][LateBodyStep =>
            /\ logEntries' = Append(logEntries, LogEntry("late", "error"))
            /\ HasFailLogs(logEntries', FALSE)]_vars

\* a later file's case passed, and the check that follows it finds the entry
\* of the body that timed out in an earlier file
C11_Witness ==
    /\ pc = "awaitTest" /\ idx = 2 /\ CallOutcome(cur) = "success"
    /\ out1[1] = "Fail"
    /\ \E k \in 1..Len(logEntries) : logEntries[k] = LogEntry("late", "error")
    /\ \A k \in 1..Len(logEntries) :
            logEntries[k].severity # "info" => logEntries[k].logSource = "late"

\* a step of the main control flow (not a late timer or body event)
MainStep == lateEvent' = NoLateEvent

\* the exceptions runTestFiles lets through: a hook that is not guarded (after
\* each, server stop), a usage error, a failed internal assertion
Propagating == {"hookError", "usageError", "invariantViolation"}

\* C12: a server start error, a case that timed out or threw, and a
\* log-detected failure are each logged with their reason and caught: the
\* attempt's outcome becomes Fail, recorded by the loop of runTestFiles, which
\* goes on with the remaining files unless abortMaybe ends the process in
\* parallel-CI mode; a pass is cut short without parallel CI only by an
\* exception of another origin.
C12_FailuresAreCaught ==
    /\ [][(MainStep /\ pc = "startServer" /\ att'.startThrew)
            => (logged' = "startServer" /\ runAllResult' \notin Propagating)]_vars
    /\ [][(MainStep /\ pc = "awaitTest" /\ pc' # "awaitTest"
              /\ runAllResult' # "hookError")
            => /\ CallOutcome(cur) \in {"timeout", "propagated"} => logged' = "threw"
               /\ logged' \in {"threw", "log"} <=> att'.loop = "failed"
               /\ runAllResult' = "running"]_vars
    /\ [][(att.outcome = "none" /\ att'.outcome = "Fail")
            => /\ logged' \in {"startServer", "termination"} \/ att.loop = "failed"
               /\ \/ runAllResult' = "exited" /\ isParallelCIEnv /\ att.final
                  \/ /\ runAllResult' = "running"
                     /\ pc' \in {"loop", "closeBrowser"}
                     /\ IF att.pass = 1 THEN out1'[att.file] = "Fail"
                                        ELSE out2'[att.file] = "Fail"]_vars
    /\ []((~isParallelCIEnv /\ pc = "done" /\ \E f \in Files : execCount[f][1] = 0)
            => runAllResult \in Propagating)

C14_StopThenClose ==
    /\ (att.started /\ att.outcome # "none") =>
            /\ att.loop \in {"passed", "failed"}
            /\ att.stops = 1 /\ att.closed = 1
    /\ att.closed <= att.stops
    /\ pc = "closePage" => att.stops = 1 /\ att.closed = 0

\* a case failed, and the attempt returned Fail to the loop of runTestFiles
C14_Witness ==
    /\ att.started /\ att.loop = "failed"
    /\ att.outcome = "Fail" /\ pc = "loop"
    /\ att.stops = 1 /\ att.closed = 1

\* C15: a case is judged failed iff its body threw or timed out, or the log
\* checked after afterEach has run holds an error entry, or a warning entry
\* while the file's run() did not set doNotFailOnWarning; with both a thrown
\* error and a disqualifying entry the reason logged is 'the test threw'.
C15_CaseVerdict ==
    /\ [][(pc = "awaitTest" /\ caseCheck'.made)
            => caseCheck'.err = (CallOutcome(cur) \in {"timeout", "propagated"})]_vars
    /\ [](caseCheck.made =>
            LET failOnWarning == ~currentTest.decl.doNotFailOnWarning
                disqualifying == caseCheck.error \/ (failOnWarning /\ caseCheck.warning)
            IN  /\ att.loop = "failed" <=> (caseCheck.err \/ disqualifying)
                /\ logged = "threw" <=> caseCheck.err
                /\ logged = "log" <=> (~caseCheck.err /\ disqualifying)
                /\ logged \in {"threw", "log", "none"})

\* C16: once a case body failed before the timer elapsed, by a synchronous
\* throw or by a rejection, runTest fails with the propagated error and the
\* timer is cancelled: no invocation that reported a propagated error, awaited
\* or left behind, has its timer still armed, and none gets its promise
\* rejected by the timer afterwards.
C16_FailureCancelsTimer ==
    /\ (pc = "awaitTest" /\ CallOutcome(cur) = "propagated") => cur.timeout = "cleared"
    /\ \A r \in orphans : CallOutcome(r) = "propagated" => r.timeout # "armed"
    /\ lateEvent.before # "propagated"

\* a file is between the import of buildAndTest and its return
Executing == pc \in {"startServer", "caseLoop", "awaitTest", "terminateServer", "closePage"}

\* C17: while a file is being executed the context is that file's, and it is
\* null whenever buildAndTest is about to be called for the next file and
\* once runTestFiles has returned, whatever the previous file did (passed,
\* failed or was skipped).
C17_ContextPerFile ==
    /\ (pc = "loop" \/ Returned) => currentTest.testFile = 0 /\ ~currentTest.page
    /\ Executing =>
            /\ currentTest.testFile = CurrentFile
            /\ currentTest.testFile = att.file
            /\ currentTest.decl = att.decl

\* the first file failed after it ran, and the second file is about to be built
C17_Witness ==
    /\ pc = "loop" /\ idx = 2 /\ pass = 1
    /\ out1[1] = "Fail" /\ att.started
    /\ currentTest = NoTest

\* C18: the assertion of runAll never fails: when runAll makes its final
\* check, a failure has been logged (hasFail) iff the sequence of still-failing
\* files is not empty.
C18_AssertionNeverFails ==
    /\ pc = "closeBrowser" => (hasFailLog <=> failedTestFiles # << >>)
    /\ runAllResult # "assertionError"

\* an entry of severity warning added by the server stop hook or by page.close
StopWarning(log) ==
    \E k \in 1..Len(log) :
        log[k].severity = "warning" /\ log[k].logSource \in {"server", "page"}

\* C19: the post-stop check reports a failure only for an attempt whose case
\* loop passed, and it counts warnings whatever the file's doNotFailOnWarning
\* says: outside Windows, an attempt whose cases all passed and whose log got
\* a warning during terminateServer or page.close has the outcome Fail.
C19_PostStopCountsWarnings ==
    /\ logged = "termination" => att.loop = "passed" /\ att.outcome = "Fail"
    /\ att.loop = "failed" => att.checkLog = << >>
    /\ (att.outcome # "none" /\ att.loop = "passed" /\ ~isWindowsEnv
            /\ StopWarning(att.checkLog))
        => att.outcome = "Fail"

C19_Witness ==
    /\ att.loop = "passed" /\ att.casesStarted = MaxTests
    /\ att.decl.doNotFailOnWarning /\ ~isWindowsEnv
    /\ StopWarning(att.checkLog) /\ ~HasFailLogs(att.checkLog, FALSE)
    /\ att.outcome = "Fail" /\ logged = "termination"

\* C20: an exception thrown by afterEach or by terminateServer is not turned
\* into a Fail outcome: the step that throws ends the run with the exception,
\* records no outcome and logs no failure, the files after the current one
\* have not been executed in this pass, pass 2 has not begun if the pass was
\* pass 1, and nothing runs afterwards; when afterEach threw, terminateServer
\* was not called, the page was not closed, and the current-test context and
\* the log entries are left as they were.
C20_HookExceptionPropagates ==
    [][ /\ runAllResult # "hookError"
        /\ runAllResult' = "hookError" =>
              /\ pc \in {"awaitTest", "terminateServer"}
              /\ pc' = "done"
              /\ att'.outcome = "none"
              /\ out1' = out1 /\ out2' = out2
              /\ failedFirstAttempt' = failedFirstAttempt
              /\ failedSecondAttempt' = failedSecondAttempt
              /\ hasFailLog' = hasFailLog
              /\ execCount' = execCount /\ pass' = pass /\ idx' = idx
              /\ \A k \in (idx + 1)..Len(CurrentList) : execCount[CurrentList[k]][pass] = 0
              /\ pass = 1 => \A f \in Files : execCount[f][2] = 0
              /\ pc = "awaitTest" =>
                    /\ att'.stops = 0 /\ att'.closed = 0
                    /\ currentTest' = currentTest
                    /\ currentTest.testFile = CurrentFile /\ currentTest.page
                    /\ logEntries' = logEntries
      ]_vars

C20_Witness ==
    /\ runAllResult = "hookError" /\ pc = "done"
    /\ isCIEnv /\ pass = 1 /\ idx = 1
    /\ att.stops = 0 /\ att.closed = 0 /\ att.casesStarted = 1
    /\ currentTest.testFile = 1 /\ logEntries # << >>
    /\ execCount[2][1] = 0 /\ execCount[2][2] = 0

====
